---- MODULE Spec2Model ----
(***************************************************************************)
(* Attack Path Engine: the dynamic prompt builder (app/core/prompts.py),   *)
(* the analyzer pipeline (app/services/analyzer.py), the LLM client        *)
(* (app/services/llm_client.py) and the response model                     *)
(* (app/models/analysis.py).                                               *)
(*                                                                         *)
(* Text is a sequence of tokens.  A token is a TLA+ string; the line       *)
(* feed "\n" and the equals sign "=" are always tokens of their own, so    *)
(* that lines and the "===" delimiter can be counted exactly.  Characters  *)
(* outside ASCII are written as their code points, "<U+2022>".             *)
(* An Optional[T] is a sequence of length 0 (None) or 1 (the value).       *)
(***************************************************************************)
EXTENDS Integers, Sequences, FiniteSets, TLC

VARIABLES
  scenario,   \* test_scenarios.test_scenario: the InputHost under test
  sections,   \* PromptBuilder.build_attack_analysis_prompt: the local list `sections` of the last call
  prompt,     \* test_scenarios.test_scenario: the prompt generated for the scenario
  tpc,        \* test_scenarios.test_scenario: position ("idle", "passed")
  req,        \* per request of POST /attack-path: position, inputs, locals and outcome
  settings    \* app.config.settings: the process-wide configuration

vars == <<scenario, sections, prompt, tpc, req, settings>>

(***************************************************************************)
(* Python values                                                           *)
(***************************************************************************)
None == <<>>

Some(v) == <<v>>

\* `x is not None`
IsNotNone(o) == o # None

\* a plausible slip: `is not None` where the code tests the truth value
TruthyNotNone(o) == o # None

\* truth value of an Optional[str] or Optional[list]: None, "" and [] are falsy
Truthy(o) == o # None /\ Len(o[1]) > 0

\* truth value of an Optional[bool]: None and False are falsy
TruthyBool(o) == o # None /\ o[1]

Digit(d) == CASE d = 0 -> "0" [] d = 1 -> "1" [] d = 2 -> "2" [] d = 3 -> "3"
              [] d = 4 -> "4" [] d = 5 -> "5" [] d = 6 -> "6" [] d = 7 -> "7"
              [] d = 8 -> "8" [] d = 9 -> "9"

RECURSIVE NatToStr(_)
NatToStr(n) == IF n < 10 THEN <<Digit(n)>> ELSE NatToStr(n \div 10) \o <<Digit(n % 10)>>

\* str(int)
IntToStr(n) == IF n < 0 THEN <<"-">> \o NatToStr(0 - n) ELSE NatToStr(n)

\* str(float) of a score held in tenths: 98 is 9.8, 70 is 7.0
FloatToStr(t) == NatToStr(t \div 10) \o <<".">> \o <<Digit(t % 10)>>

\* sep.join(parts), parts a sequence of texts
RECURSIVE Join(_, _)
Join(sep, parts) ==
  IF Len(parts) = 0 THEN <<>>
  ELSE IF Len(parts) = 1 THEN parts[1]
  ELSE LET half == Len(parts) \div 2
       IN  Join(sep, SubSeq(parts, 1, half))
           \o sep
           \o Join(sep, SubSeq(parts, half + 1, Len(parts)))

\* a plausible slip: the numbers rendered last to first
MapIntToStrReversed(ints) == [i \in 1..Len(ints) |-> IntToStr(ints[Len(ints) + 1 - i])]

\* map(str, ints)
MapIntToStr(ints) == [i \in 1..Len(ints) |-> IntToStr(ints[i])]

NL == <<"\n">>

BULLET == "  <U+2022> "

(***************************************************************************)
(* InputHost (app/models/host.py): 50 optional fields in 13 categories     *)
(***************************************************************************)
StrFields ==
  {"platform", "version_os", "asset_id", "asset_name", "fqdn", "network_segment",
   "edr_agent", "antivirus_status", "firewall_status", "encryption_status",
   "domain_membership", "organizational_unit", "password_policy", "patch_level",
   "asset_criticality", "business_role", "data_classification", "environment",
   "cloud_provider", "cloud_instance_type", "container_runtime",
   "kubernetes_cluster", "backup_system", "backup_location"}

ListFields ==
  {"services", "vulnerabilities", "mac_addresses", "ip_addresses", "firewall_rules",
   "security_controls", "user_accounts", "admin_accounts", "service_accounts",
   "installed_software", "browser_extensions", "database_software",
   "development_tools", "missing_patches", "configurations", "compliance_gaps",
   "security_recommendations", "cloud_iam_roles", "threat_intel_matches",
   "known_exploits"}

IntListFields == {"open_ports"}

BoolFields == {"internet_exposed", "mfa_enabled", "os_end_of_life"}

FloatFields == {"vulnerability_score"}

IntFields == {"critical_vuln_count"}

Fields == StrFields \cup ListFields \cup IntListFields \cup BoolFields
            \cup FloatFields \cup IntFields

\* the category of the data model each field is declared in (1..13)
Category(f) ==
  CASE f \in {"platform", "version_os"} -> 1
    [] f \in {"open_ports", "services", "vulnerabilities"} -> 2
    [] f \in {"asset_id", "asset_name", "mac_addresses", "ip_addresses", "fqdn"} -> 3
    [] f \in {"network_segment", "internet_exposed", "firewall_rules"} -> 4
    [] f \in {"security_controls", "edr_agent", "antivirus_status", "firewall_status",
              "encryption_status"} -> 5
    [] f \in {"domain_membership", "organizational_unit", "user_accounts",
              "admin_accounts", "service_accounts", "mfa_enabled", "password_policy"} -> 6
    [] f \in {"installed_software", "browser_extensions", "database_software",
              "development_tools"} -> 7
    [] f \in {"patch_level", "missing_patches", "os_end_of_life", "vulnerability_score",
              "critical_vuln_count"} -> 8
    [] f \in {"configurations", "compliance_gaps", "security_recommendations"} -> 9
    [] f \in {"asset_criticality", "business_role", "data_classification",
              "environment"} -> 10
    [] f \in {"cloud_provider", "cloud_instance_type", "cloud_iam_roles",
              "container_runtime", "kubernetes_cluster"} -> 11
    [] f \in {"backup_system", "backup_location"} -> 12
    [] f \in {"threat_intel_matches", "known_exploits"} -> 13

\* InputHost(): every field defaults to None
EmptyHost == [f \in Fields |-> None]

(***************************************************************************)
(* PromptBuilder (app/core/prompts.py)                                     *)
(***************************************************************************)
\* a plausible slip: the items rendered last to first
_format_list_Reversed(items) ==
  IF ~Truthy(items) THEN <<"None detected">>
  ELSE <<"\n", BULLET>>
       \o Join(<<"\n", BULLET>>, [i \in 1..Len(items[1]) |-> items[1][Len(items[1]) + 1 - i]])

_format_list(items) ==
  IF ~Truthy(items) THEN <<"None detected">>
  ELSE <<"\n", BULLET>> \o Join(<<"\n", BULLET>>, items[1])

\* f"- {label}: {value}" appended when the string field is truthy
StrLine(host, f, label) ==
  IF Truthy(host[f]) THEN << <<label>> \o host[f][1] >> ELSE <<>>

\* f"- {label}: {', '.join(value)}" appended when the list field is truthy
CommaLine(host, f, label) ==
  IF Truthy(host[f]) THEN << <<label>> \o Join(<<", ">>, host[f][1]) >> ELSE <<>>

\* f"- {label}:{pb._format_list(value)}" appended when the list field is truthy
ListLine(host, f, label) ==
  IF Truthy(host[f]) THEN << <<label>> \o _format_list(host[f]) >> ELSE <<>>

\* "=== <title> ===\n" + "\n".join(lines)
SectionText(title, lines) ==
  <<"=", "=", "=", " ", title, " ", "=", "=", "=">> \o NL \o Join(NL, lines)

\* a plausible slip: the section appended without the `if info:` test
SectionIfAlways(title, lines) == <<SectionText(title, lines)>>

\* the `if info: sections.append(...)` of every section but the first
SectionIf(title, lines) ==
  IF Len(lines) > 0 THEN <<SectionText(title, lines)>> ELSE <<>>

\* the titles of the twelve blocks, in the order the code appends them
TITLES ==
  <<"CORE SYSTEM INFO",
    "ASSET IDENTIFICATION",
    "ASSET CONTEXT (HIGH PRIORITY FOR RISK ASSESSMENT)",
    "NETWORK & EXPOSURE",
    "SECURITY CONTROLS (CONSIDER FOR EVASION)",
    "VULNERABILITIES & PATCH STATUS",
    "IDENTITY & ACCESS MANAGEMENT",
    "INSTALLED SOFTWARE (ADDITIONAL ATTACK VECTORS)",
    "MISCONFIGURATIONS & WEAKNESSES",
    "CLOUD & CONTAINER ENVIRONMENT",
    "BACKUP & RECOVERY (POTENTIAL EXFILTRATION TARGET)",
    "THREAT INTELLIGENCE">>

core_info(host) ==
  StrLine(host, "platform", "- Platform: ")
  \o StrLine(host, "version_os", "- OS Version: ")
  \o (IF TruthyBool(host["os_end_of_life"])
      THEN << <<"- <U+26A0><U+FE0F> OS END-OF-LIFE: System is running unsupported OS version">> >>
      ELSE <<>>)

\* a plausible slip: the first section also emitted for the end-of-life flag alone
CoreSection_EolAlone(host) ==
  IF Truthy(host["platform"]) \/ Truthy(host["version_os"])
       \/ TruthyBool(host["os_end_of_life"])
  THEN <<SectionText(TITLES[1], core_info(host))>>
  ELSE <<>>

CoreSection(host) ==
  IF Truthy(host["platform"]) \/ Truthy(host["version_os"])
  THEN <<SectionText(TITLES[1], core_info(host))>>
  ELSE <<>>

asset_info(host) ==
  StrLine(host, "asset_name", "- Asset Name: ")
  \o StrLine(host, "asset_id", "- Asset ID: ")
  \o StrLine(host, "fqdn", "- FQDN: ")
  \o CommaLine(host, "ip_addresses", "- IP Addresses: ")
  \o CommaLine(host, "mac_addresses", "- MAC Addresses: ")

context_info(host) ==
  StrLine(host, "asset_criticality", "- <U+1F3AF> Asset Criticality: ")
  \o StrLine(host, "business_role", "- Business Role: ")
  \o StrLine(host, "environment", "- Environment: ")
  \o StrLine(host, "data_classification", "- Data Classification: ")

\* a plausible slip: `if host.internet_exposed:` where the code tests `is not None`
network_info_Truthy(host) ==
  StrLine(host, "network_segment", "- Network Segment: ")
  \o (IF TruthyBool(host["internet_exposed"])
      THEN << <<"- Internet Exposed: ">>
              \o (IF host["internet_exposed"][1]
                  THEN <<"YES - Exposed to Internet <U+1F310>">>
                  ELSE <<"No - Internal only">>) >>
      ELSE <<>>)
  \o (IF Truthy(host["open_ports"])
      THEN << <<"- Open Ports: ">> \o Join(<<", ">>, MapIntToStr(host["open_ports"][1])) >>
      ELSE <<>>)
  \o ListLine(host, "services", "- Services:")
  \o ListLine(host, "firewall_rules", "- Firewall Rules:")

network_info(host) ==
  StrLine(host, "network_segment", "- Network Segment: ")
  \o (IF IsNotNone(host["internet_exposed"])
      THEN << <<"- Internet Exposed: ">>
              \o (IF host["internet_exposed"][1]
                  THEN <<"YES - Exposed to Internet <U+1F310>">>
                  ELSE <<"No - Internal only">>) >>
      ELSE <<>>)
  \o (IF Truthy(host["open_ports"])
      THEN << <<"- Open Ports: ">> \o Join(<<", ">>, MapIntToStr(host["open_ports"][1])) >>
      ELSE <<>>)
  \o ListLine(host, "services", "- Services:")
  \o ListLine(host, "firewall_rules", "- Firewall Rules:")

security_info(host) ==
  ListLine(host, "security_controls", "- Security Controls:")
  \o StrLine(host, "edr_agent", "- EDR Agent: ")
  \o StrLine(host, "antivirus_status", "- Antivirus Status: ")
  \o StrLine(host, "firewall_status", "- Firewall Status: ")
  \o StrLine(host, "encryption_status", "- Disk Encryption: ")

vuln_info(host) ==
  ListLine(host, "vulnerabilities", "- Known Vulnerabilities:")
  \o (IF IsNotNone(host["vulnerability_score"])
      THEN << <<"- Vulnerability Score: ">> \o FloatToStr(host["vulnerability_score"][1]) >>
      ELSE <<>>)
  \o (IF IsNotNone(host["critical_vuln_count"])
      THEN << <<"- Critical Vulnerabilities: ">> \o IntToStr(host["critical_vuln_count"][1]) >>
      ELSE <<>>)
  \o StrLine(host, "patch_level", "- Patch Level: ")
  \o ListLine(host, "missing_patches", "- Missing Patches:")

identity_info(host) ==
  StrLine(host, "domain_membership", "- Domain: ")
  \o StrLine(host, "organizational_unit", "- Organizational Unit: ")
  \o ListLine(host, "user_accounts", "- User Accounts:")
  \o ListLine(host, "admin_accounts", "- <U+1F511> Admin Accounts:")
  \o ListLine(host, "service_accounts", "- Service Accounts:")
  \o (IF IsNotNone(host["mfa_enabled"])
      THEN << <<"- Multi-Factor Authentication: ">>
              \o (IF host["mfa_enabled"][1]
                  THEN <<"Enabled <U+2713>">>
                  ELSE <<"NOT ENABLED <U+26A0><U+FE0F>">>) >>
      ELSE <<>>)
  \o StrLine(host, "password_policy", "- Password Policy: ")

software_info(host) ==
  ListLine(host, "installed_software", "- Installed Software:")
  \o ListLine(host, "database_software", "- Database Software:")
  \o ListLine(host, "development_tools", "- Development Tools:")
  \o ListLine(host, "browser_extensions", "- Browser Extensions:")

config_info(host) ==
  ListLine(host, "configurations", "- <U+26A0><U+FE0F> Misconfigurations:")
  \o ListLine(host, "security_recommendations", "- Security Recommendations:")
  \o ListLine(host, "compliance_gaps", "- Compliance Gaps:")

cloud_info(host) ==
  StrLine(host, "cloud_provider", "- Cloud Provider: ")
  \o StrLine(host, "cloud_instance_type", "- Instance Type: ")
  \o ListLine(host, "cloud_iam_roles", "- IAM Roles:")
  \o StrLine(host, "container_runtime", "- Container Runtime: ")
  \o StrLine(host, "kubernetes_cluster", "- Kubernetes Cluster: ")

backup_info(host) ==
  StrLine(host, "backup_system", "- Backup System: ")
  \o StrLine(host, "backup_location", "- Backup Location: ")

threat_info(host) ==
  ListLine(host, "threat_intel_matches", "- <U+1F534> Threat Intel Matches:")
  \o ListLine(host, "known_exploits", "- Known Exploits:")

\* `sections = []` at the start of every call
InitialSections == <<>>

\* a plausible slip: the network block moved in front of the asset blocks
ComposeSectionsNetworkFirst(host, start) ==
  start
  \o CoreSection(host)
  \o SectionIf(TITLES[4], network_info(host))
  \o SectionIf(TITLES[2], asset_info(host))
  \o SectionIf(TITLES[3], context_info(host))
  \o SectionIf(TITLES[5], security_info(host))
  \o SectionIf(TITLES[6], vuln_info(host))
  \o SectionIf(TITLES[7], identity_info(host))
  \o SectionIf(TITLES[8], software_info(host))
  \o SectionIf(TITLES[9], config_info(host))
  \o SectionIf(TITLES[10], cloud_info(host))
  \o SectionIf(TITLES[11], backup_info(host))
  \o SectionIf(TITLES[12], threat_info(host))

\* a plausible slip: the first block appended a second time at the end
ComposeSectionsCoreTwice(host, start) ==
  start
  \o CoreSection(host)
  \o SectionIf(TITLES[2], asset_info(host))
  \o SectionIf(TITLES[3], context_info(host))
  \o SectionIf(TITLES[4], network_info(host))
  \o SectionIf(TITLES[5], security_info(host))
  \o SectionIf(TITLES[6], vuln_info(host))
  \o SectionIf(TITLES[7], identity_info(host))
  \o SectionIf(TITLES[8], software_info(host))
  \o SectionIf(TITLES[9], config_info(host))
  \o SectionIf(TITLES[10], cloud_info(host))
  \o SectionIf(TITLES[11], backup_info(host))
  \o SectionIf(TITLES[12], threat_info(host))
  \o CoreSection(host)

\* the list `sections` after the twelve blocks, in the order the code appends
ComposeSections(host, start) ==
  start
  \o CoreSection(host)
  \o SectionIf(TITLES[2], asset_info(host))
  \o SectionIf(TITLES[3], context_info(host))
  \o SectionIf(TITLES[4], network_info(host))
  \o SectionIf(TITLES[5], security_info(host))
  \o SectionIf(TITLES[6], vuln_info(host))
  \o SectionIf(TITLES[7], identity_info(host))
  \o SectionIf(TITLES[8], software_info(host))
  \o SectionIf(TITLES[9], config_info(host))
  \o SectionIf(TITLES[10], cloud_info(host))
  \o SectionIf(TITLES[11], backup_info(host))
  \o SectionIf(TITLES[12], threat_info(host))

PLACEHOLDER == <<"Minimal information available - generate generic attack path">>

\* a plausible slip: the join without the fallback for an empty list
target_info_NoPlaceholder(secs) == Join(<<"\n", "\n">>, secs)

\* a plausible slip: the sections joined with one line feed, no blank line between
target_info_SingleNewline(secs) ==
  IF Len(secs) > 0 THEN Join(NL, secs) ELSE PLACEHOLDER

\* target_info = "\n\n".join(sections) if sections else <placeholder>
target_info(secs) ==
  IF Len(secs) > 0 THEN Join(<<"\n", "\n">>, secs) ELSE PLACEHOLDER

PreambleLines ==
  << <<"Generate a realistic attack path for the following target based on collected vulnerability and exposure data.">>,
     <<>>,
     <<"TARGET INFORMATION (from external collector):">>,
     <<>> >>

EpilogueLines ==
  << <<>>,
     <<"YOUR TASK:">>,
     <<"1. Generate a detailed, step-by-step attack path following the Cyber Kill Chain phases">>,
     <<"2. Map each action to relevant MITRE ATT&CK techniques (TTP - Tactics, Techniques, and Procedures)">>,
     <<"3. **CRITICAL**: Tailor the attack path to the SPECIFIC CONTEXT provided above:">>,
     <<"   - If security controls (EDR, firewall) are present, include evasion techniques">>,
     <<"   - If cloud/container environments are detected, include cloud-native attack techniques">>,
     <<"   - If misconfigurations are listed, exploit them specifically">>,
     <<"   - If admin accounts are identified, target them for privilege escalation">>,
     <<"   - If MFA is disabled, note easier credential access">>,
     <<"   - If asset criticality is high, emphasize the business impact">>,
     <<"   - Consider network segmentation for lateral movement strategies">>,
     <<"4. Provide technical details and include code examples when applicable">>,
     <<"5. Assess the overall risk level based on exploitability, impact, AND asset criticality">>,
     <<>>,
     <<"Attack Path Structure - Follow Cyber Kill Chain Phases:">>,
     <<>>,
     <<"1. **Reconnaissance**: Collect public and observable information about the target to identify assets, services, and potential exposure (passive, non-actionable). Map to MITRE techniques like T1595 (Active Scanning), T1592 (Gather Victim Host Information).">>,
     <<>>,
     <<"2. **Weaponization**: Design or select a capability or payload tailored to observed weaknesses. Describe the attack tools or exploits prepared. Map to relevant MITRE techniques.">>,
     <<>>,
     <<"3. **Delivery**: Describe the vector used to deliver the capability to the target (e.g., network exploitation, phishing, direct service attack). Map to MITRE techniques like T1566 (Phishing), T1190 (Exploit Public-Facing Application).">>,
     <<>>,
     <<"4. **Exploitation**: Trigger vulnerability or misconfiguration to gain initial access. Include specific exploitation techniques, CVE details, and code examples where applicable. Map to MITRE Initial Access techniques.">>,
     <<>>,
     <<"5. **Installation**: Establish persistent foothold by deploying tools, backdoors, or mechanisms. Describe installation methods and tools used. Map to MITRE Persistence techniques like T1543 (Create or Modify System Process), T1053 (Scheduled Task).">>,
     <<>>,
     <<"6. **Command and Control (C2)**: Define the channel for remote control and coordination. Include protocols, tools (e.g., Metasploit, Cobalt Strike, custom C2), and communication methods. Map to MITRE C2 techniques like T1071 (Application Layer Protocol), T1573 (Encrypted Channel).">>,
     <<>>,
     <<"7. **Actions on Objectives**: Describe goals achieved after establishing control such as data access, lateral movement, privilege escalation, data exfiltration, or system disruption. Map to MITRE techniques like T1003 (Credential Dumping), T1021 (Remote Services), T1567 (Exfiltration Over Web Service).">>,
     <<>>,
     <<"Guidelines:">>,
     <<"- Each step must be a single, detailed string describing one concrete attacker action">>,
     <<"- Include technical specifics: commands, tools, protocols, file paths when relevant">>,
     <<"- Add code examples for exploitation and post-exploitation phases">>,
     <<"- Map each phase to specific MITRE ATT&CK technique IDs (T####)">>,
     <<"- Number of steps should reflect a realistic progression for the given vulnerabilities">>,
     <<"- Ensure logical flow from reconnaissance through objectives">>,
     <<"- Be realistic about what an attacker could achieve with the given attack surface">>,
     <<>>,
     <<"Format your response as JSON with this exact structure:">>,
     <<"{">>,
     <<"    ", "\"attack_path\"", ": [">>,
     <<"        \"Reconnaissance: [Detailed description with SPECIFIC context from target info, MITRE mapping]\",">>,
     <<"        \"Weaponization: [Description considering security controls present, MITRE mapping]\",">>,
     <<"        \"Delivery: [Description considering network exposure and segmentation, MITRE mapping]\",">>,
     <<"        \"Exploitation: [Detailed exploitation of SPECIFIC vulnerabilities/misconfigurations listed, with CVE, commands, code examples, MITRE mapping]\",">>,
     <<"        \"Installation: [Persistence mechanism considering EDR/security controls, MITRE mapping]\",">>,
     <<"        \"Command and Control: [C2 setup considering firewall rules and network monitoring, MITRE mapping]\",">>,
     <<"        \"Actions on Objectives: [Goals considering asset criticality and data classification, MITRE mapping]\"">>,
     <<"    ]">>,
     <<"}">>,
     <<>>,
     <<"Rules:">>,
     <<"- Always return a valid JSON object with key ", "\"attack_path\"">>,
     <<"- Each attack_path element must be a single string describing one Cyber Kill Chain phase">>,
     <<"- Always map actions to equivalent MITRE ATT&CK technique IDs (T####)">>,
     <<"- **REFERENCE SPECIFIC CONTEXT**: Use actual details from the target information (e.g., specific CVEs, account names, software versions, misconfigurations)">>,
     <<"- Include code examples, commands, or technical details when describing exploitation">>,
     <<"- Ensure output is valid, parseable JSON with no additional text outside the JSON structure">>,
     <<>>,
     <<"Generate a realistic, context-aware attack sequence now.">> >>

\* the text before the target block: the preamble's lines, each ended by a line feed
PreambleText == Join(NL, PreambleLines) \o NL

\* the text after the target block: a line feed, then the epilogue's lines
EpilogueText == NL \o Join(NL, EpilogueLines)

\* the f-string: the text before {target_info}, the target block, the text after
AssemblePrompt(secs) ==
  PreambleText \o target_info(secs) \o EpilogueText

\* PromptBuilder.build_attack_analysis_prompt(host), given the list the call starts from
build_attack_analysis_prompt(host) ==
  AssemblePrompt(ComposeSections(host, InitialSections))

(***************************************************************************)
(* Input records                                                           *)
(***************************************************************************)
\* most fields given a value in one generated record with typical values
MaxPopulated == 2

\* most fields given a value in one generated record with varied values
MaxVaried == 1

\* longest list in a generated record with varied values
MaxListLen == 2

\* the fields in the order app/models/host.py declares them
FieldOrder ==
  <<"platform", "version_os",
    "open_ports", "services", "vulnerabilities",
    "asset_id", "asset_name", "mac_addresses", "ip_addresses", "fqdn",
    "network_segment", "internet_exposed", "firewall_rules",
    "security_controls", "edr_agent", "antivirus_status", "firewall_status",
    "encryption_status",
    "domain_membership", "organizational_unit", "user_accounts", "admin_accounts",
    "service_accounts", "mfa_enabled", "password_policy",
    "installed_software", "browser_extensions", "database_software",
    "development_tools",
    "patch_level", "missing_patches", "os_end_of_life", "vulnerability_score",
    "critical_vuln_count",
    "configurations", "compliance_gaps", "security_recommendations",
    "asset_criticality", "business_role", "data_classification", "environment",
    "cloud_provider", "cloud_instance_type", "cloud_iam_roles", "container_runtime",
    "kubernetes_cluster",
    "backup_system", "backup_location",
    "threat_intel_matches", "known_exploits">>

\* all sequences over S of length n, shortest first by construction
RECURSIVE SeqsOfLen(_, _)
SeqsOfLen(S, n) ==
  IF n = 0 THEN << <<>> >>
  ELSE LET shorter == SeqsOfLen(S, n - 1)
           ext(s) == [i \in 1..Len(S) |-> Append(s, S[i])]
           RECURSIVE All(_)
           All(i) == IF i > Len(shorter) THEN <<>> ELSE ext(shorter[i]) \o All(i + 1)
       IN  All(1)

RECURSIVE SeqsUpTo(_, _)
SeqsUpTo(S, n) == IF n = 0 THEN SeqsOfLen(S, 0) ELSE SeqsUpTo(S, n - 1) \o SeqsOfLen(S, n)

StrTypical == << <<>>, <<"Linux">> >>

StrVaried == << <<>>, <<"Linux">>, <<"a", "=", "=", "=", "b">> >>

ListTypical == << <<>>, << <<"alpha">>, <<"beta">> >> >>

ListVaried == SeqsUpTo(<< <<"alpha">>, <<"beta">> >>, MaxListLen)

PortsTypical == << <<>>, <<22, 80>> >>

PortsVaried == SeqsUpTo(<<22, 80>>, MaxListLen)

\* the values a field is given: the empty value and one typical value, or varied ones
Values(f, varied) ==
  CASE f \in StrFields -> IF varied THEN StrVaried ELSE StrTypical
    [] f \in ListFields -> IF varied THEN ListVaried ELSE ListTypical
    [] f \in IntListFields -> IF varied THEN PortsVaried ELSE PortsTypical
    [] f \in BoolFields -> <<TRUE, FALSE>>
    [] f \in FloatFields -> <<0, 98>>
    [] f \in IntFields -> <<0, 5>>

\* the choices of at most n fields: slot k names a field by its position in FieldOrder
\* (0: no field), the named fields in declaration order
IsFieldChoice(fs, n) ==
  \A k \in 1..(n - 1) : (fs[k + 1] = 0 => fs[k] = 0) /\ (fs[k] # 0 => fs[k] < fs[k + 1])

\* slot k names the value of its field by its position in Values
IsValueChoice(fs, vs, n, varied) ==
  \A k \in 1..n :
    IF fs[k] = 0 THEN vs[k] = 1 ELSE vs[k] <= Len(Values(FieldOrder[fs[k]], varied))

MostValues(varied) == IF varied THEN Len(ListVaried) ELSE Len(ListTypical)

\* InputHost(**data) for the chosen fields and values
HostOf(fs, vs, varied) ==
  [f \in Fields |->
     IF \E k \in DOMAIN fs : fs[k] # 0 /\ FieldOrder[fs[k]] = f
     THEN LET k == CHOOSE k \in DOMAIN fs : fs[k] # 0 /\ FieldOrder[fs[k]] = f
          IN  Some(Values(f, varied)[vs[k]])
     ELSE None]

(***************************************************************************)
(* json.loads over the reply text.  Structural characters, literals and    *)
(* quoted strings are tokens; white space between them is skipped.         *)
(***************************************************************************)
J(kind) == [t |-> kind, s |-> <<>>, n |-> 0, b |-> FALSE, items |-> <<>>, keys |-> <<>>]

JStr(text) == [J("str") EXCEPT !.s = text]

JNum(n) == [J("num") EXCEPT !.n = n]

JBool(b) == [J("bool") EXCEPT !.b = b]

JArr(items) == [J("arr") EXCEPT !.items = items]

JObj(keys, items) == [J("obj") EXCEPT !.keys = keys, !.items = items]

\* the quoted strings that occur in replies, and the text each denotes
StringLiterals ==
  {"\"attack_path\"", "\"risk_level\"", "\"recommendations\"", "\"step1\"", "\"step2\"",
   "\"Critical\"", "\"critical\"", "\"High\"", "\"patch\"", "\"text\""}

Unquote(tok) ==
  CASE tok = "\"attack_path\"" -> <<"attack_path">>
    [] tok = "\"risk_level\"" -> <<"risk_level">>
    [] tok = "\"recommendations\"" -> <<"recommendations">>
    [] tok = "\"step1\"" -> <<"step1">>
    [] tok = "\"step2\"" -> <<"step2">>
    [] tok = "\"Critical\"" -> <<"Critical">>
    [] tok = "\"critical\"" -> <<"critical">>
    [] tok = "\"High\"" -> <<"High">>
    [] tok = "\"patch\"" -> <<"patch">>
    [] tok = "\"text\"" -> <<"text">>

NumberLiterals == {"7"}

NumberOf(tok) == CASE tok = "7" -> 7

ParseFail == [ok |-> FALSE, val |-> J("null"), rest |-> <<>>]

ParseOk(v, rest) == [ok |-> TRUE, val |-> v, rest |-> rest]

RECURSIVE ParseValue(_), ParseElements(_, _), ParseMembers(_, _, _)
ParseValue(toks) ==
  IF Len(toks) = 0 THEN ParseFail
  ELSE LET head == toks[1]
           rest == Tail(toks)
       IN  CASE head = "null" -> ParseOk(J("null"), rest)
             [] head = "true" -> ParseOk(JBool(TRUE), rest)
             [] head = "false" -> ParseOk(JBool(FALSE), rest)
             [] head \in StringLiterals -> ParseOk(JStr(Unquote(head)), rest)
             [] head \in NumberLiterals -> ParseOk(JNum(NumberOf(head)), rest)
             [] head = "[" ->
                  IF Len(rest) > 0 /\ rest[1] = "]" THEN ParseOk(JArr(<<>>), Tail(rest))
                  ELSE ParseElements(rest, <<>>)
             [] head = "{" ->
                  IF Len(rest) > 0 /\ rest[1] = "}" THEN ParseOk(JObj(<<>>, <<>>), Tail(rest))
                  ELSE ParseMembers(rest, <<>>, <<>>)
             [] OTHER -> ParseFail

\* value ("," value)* "]"
ParseElements(toks, items) ==
  LET e == ParseValue(toks)
  IN  IF ~e.ok \/ Len(e.rest) = 0 THEN ParseFail
      ELSE IF e.rest[1] = "]" THEN ParseOk(JArr(Append(items, e.val)), Tail(e.rest))
      ELSE IF e.rest[1] = "," THEN ParseElements(Tail(e.rest), Append(items, e.val))
      ELSE ParseFail

\* string ":" value ("," string ":" value)* "}"
ParseMembers(toks, keys, items) ==
  IF Len(toks) < 2 \/ toks[1] \notin StringLiterals \/ toks[2] # ":" THEN ParseFail
  ELSE LET e == ParseValue(Tail(Tail(toks)))
           ks == Append(keys, Unquote(toks[1]))
           vs == Append(items, e.val)
       IN  IF ~e.ok \/ Len(e.rest) = 0 THEN ParseFail
           ELSE IF e.rest[1] = "}" THEN ParseOk(JObj(ks, vs), Tail(e.rest))
           ELSE IF e.rest[1] = "," THEN ParseMembers(Tail(e.rest), ks, vs)
           ELSE ParseFail

IsSpace(tok) == tok = " " \/ tok = "\n"

NotSpace(tok) == ~IsSpace(tok)

\* json.loads(content): ok is FALSE where the code raises json.JSONDecodeError
json_loads(content) ==
  LET r == ParseValue(SelectSeq(content, NotSpace))
  IN  IF r.ok /\ Len(r.rest) = 0 THEN r ELSE ParseFail

\* dict.get(key, default); a repeated key keeps its last value
DictGet(obj, key, default) ==
  LET hits == {i \in 1..Len(obj.keys) : obj.keys[i] = key}
  IN  IF hits = {} THEN default
      ELSE obj.items[CHOOSE i \in hits : \A j \in hits : j <= i]

(***************************************************************************)
(* AttackPathResponse (app/models/analysis.py), a pydantic model           *)
(***************************************************************************)
\* the declared fields; all four are required (Field(...))
ResponseFields == {"hostname", "attack_path", "risk_level", "recommendations"}

IsStr(v) == v.t = "str"

IsListOfStr(v) == v.t = "arr" /\ \A i \in 1..Len(v.items) : v.items[i].t = "str"

\* the declared type of a field of the response that the analyzer passes
FieldTypeOk(f, v) ==
  CASE f = "attack_path" -> IsListOfStr(v)
    [] f = "risk_level" -> IsStr(v)
    [] f = "recommendations" -> IsListOfStr(v)
    [] f = "hostname" -> IsStr(v)

\* the errors pydantic collects for AttackPathResponse(**kwargs): required fields
\* that are missing and passed fields of the wrong type; other keywords are ignored
ValidationErrors(kwargs) ==
  {f \in ResponseFields : f \notin DOMAIN kwargs}
  \cup {f \in ResponseFields \cap DOMAIN kwargs : ~FieldTypeOk(f, kwargs[f])}

\* the model instance: the declared fields only
AttackPathResponse(kwargs) == [f \in ResponseFields |-> kwargs[f]]

(***************************************************************************)
(* LLMClient.complete and AttackPathAnalyzer.analyze behind POST           *)
(* /attack-path                                                            *)
(***************************************************************************)
\* concurrent requests
NumRequests == 2

Reqs == 1..NumRequests

\* Settings: LLM_MODEL and LLM_TEMPERATURE defaults
Settings == [LLM_MODEL |-> "gpt-4o-mini", LLM_TEMPERATURE |-> "0.7"]

SYSTEM_MESSAGE ==
  <<"You are a MITRE ATT&CK and Cyber Kill Chain expert specializing in offensive security. ",
    "Your role is to generate realistic, step-by-step attack sequences based on vulnerability ",
    "and exposure data provided by external collectors. Structure attack paths following the ",
    "Cyber Kill Chain phases and map each action to relevant MITRE ATT&CK techniques. ",
    "Provide detailed technical descriptions and include code examples when applicable. ",
    "Tailor your attack path based on the specific context provided - consider security controls, ",
    "network segmentation, identity management, and all available asset details.">>

NoParams == [model |-> "", temperature |-> "", system |-> <<>>, user |-> <<>>,
             response_format |-> None]

NoOutcome == [kind |-> "none", error |-> "", response |-> None]

\* a request: its position, the locals of analyze and complete, the number of calls
\* of litellm.acompletion it has made, what that call raised or replied, and what
\* the route ends with
IdleRequest ==
  [pc |-> "idle", host |-> EmptyHost, include_prompt |-> FALSE, sections |-> <<>>,
   user_prompt |-> <<>>, request_params |-> NoParams, calls |-> 0, raised |-> None,
   content |-> None,
   prompt_sections |-> None, outcome |-> NoOutcome]

\* the records requests carry: none, InputHost(platform="Linux", open_ports=[22, 80]),
\* and InputHost(platform="Linux", version_os="=== custom build ===")
RequestHosts ==
  {EmptyHost,
   [EmptyHost EXCEPT !["platform"] = Some(<<"Linux">>), !["open_ports"] = Some(<<22, 80>>)],
   [EmptyHost EXCEPT !["platform"] = Some(<<"Linux">>),
                     !["version_os"] = Some(<<"=", "=", "=", " custom build ", "=", "=", "=">>)]}

\* raw text of the model's reply (response.choices[0].message.content)
ReplyContents ==
  {<<"not", " ", "json">>,
   <<"{", "}">>,
   <<"[", "]">>,
   <<"\"text\"">>,
   <<"7">>,
   <<"null">>,
   <<"{", "\"attack_path\"", ":", " ", "[", "\"step1\"", ",", " ", "\"step2\"", "]", ",", " ",
     "\"risk_level\"", ":", " ", "\"Critical\"", "}">>,
   <<"{", "\"attack_path\"", ":", "\"step1\"", ",", "\"risk_level\"", ":", "\"critical\"", "}">>,
   <<"{", "\"attack_path\"", ":", "null", ",", "\"risk_level\"", ":", "7", "}">>,
   <<"{", "\"attack_path\"", ":", "[", "\"step1\"", "]", ",", "\"risk_level\"", ":", "\"High\"",
     ",", "\"recommendations\"", ":", "[", "\"patch\"", "]", "}">>}

\* the builder's list and prompt for each record a request can carry, and
\* json.loads of each reply: the values the steps below compute, computed once
SectionsOf == [h \in RequestHosts |-> ComposeSections(h, InitialSections)]

PromptOf == [h \in RequestHosts |-> AssemblePrompt(SectionsOf[h])]

ParsedReply == [content \in ReplyContents |-> json_loads(content)]

\* a plausible slip: the response format left out of the request
RequestParams_NoFormat(system_message, user_prompt, json_mode) ==
  [model |-> settings.LLM_MODEL,
   temperature |-> settings.LLM_TEMPERATURE,
   system |-> system_message,
   user |-> user_prompt,
   response_format |-> None]

\* request_params of LLMClient.complete
RequestParams(system_message, user_prompt, json_mode) ==
  [model |-> settings.LLM_MODEL,
   temperature |-> settings.LLM_TEMPERATURE,
   system |-> system_message,
   user |-> user_prompt,
   response_format |-> IF json_mode THEN Some("json_object") ELSE None]

\* sum of the second components of a set of pairs
RECURSIVE SumSeconds(_)
SumSeconds(S) ==
  IF S = {} THEN 0
  ELSE LET x == CHOOSE x \in S : TRUE IN x[2] + SumSeconds(S \ {x})

\* text.count("==="): occurrences that do not overlap, counted from the left; a run
\* of n consecutive "=" holds n // 3 of them
CountDelims(text) ==
  LET starts == {i \in 1..Len(text) : text[i] = "=" /\ (i = 1 \/ text[i - 1] # "=")}
      stop(i) == CHOOSE j \in i..Len(text) :
                   /\ \A k \in i..j : text[k] = "="
                   /\ (j = Len(text) \/ text[j + 1] # "=")
  IN  SumSeconds({<<i, (stop(i) - i + 1) \div 3>> : i \in starts})

\* a plausible slip: the count of delimiters not halved
prompt_sections_NotHalved(user_prompt, include_prompt) ==
  IF include_prompt THEN Some(CountDelims(user_prompt)) ELSE None

\* prompt_sections = user_prompt.count("===") // 2 if include_prompt else None
prompt_sections(user_prompt, include_prompt) ==
  IF include_prompt THEN Some(CountDelims(user_prompt) \div 2) ELSE None

\* the keyword arguments analyze passes to AttackPathResponse
ResponseKwargs(host, analysis, user_prompt, include_prompt) ==
  [platform |-> host["platform"],
   version_os |-> host["version_os"],
   attack_path |-> DictGet(analysis, <<"attack_path">>, JArr(<<>>)),
   risk_level |-> DictGet(analysis, <<"risk_level">>, JStr(<<"Unknown">>)),
   generated_prompt |-> IF include_prompt THEN Some(user_prompt) ELSE None,
   prompt_sections |-> prompt_sections(user_prompt, include_prompt)]

Raised(error) == [kind |-> "error", error |-> error, response |-> None]

Returned(response) == [kind |-> "response", error |-> "", response |-> Some(response)]

\* a plausible slip: a reply that does not parse is taken as the empty object
AnalyzeOutcome_ParseFailureAsEmpty(host, include_prompt, user_prompt, content) ==
  LET parsed == ParsedReply[content]
      analysis == IF parsed.ok THEN parsed.val ELSE JObj(<<>>, <<>>)
      kwargs == ResponseKwargs(host, analysis, user_prompt, include_prompt)
  IN  IF analysis.t # "obj" THEN Raised("AttributeError")
      ELSE IF ValidationErrors(kwargs) # {} THEN Raised("ValidationError")
      ELSE Returned(AttackPathResponse(kwargs))

\* analyze from the return of llm_client.complete to its own return or raise
AnalyzeOutcome(host, include_prompt, user_prompt, content) ==
  LET parsed == ParsedReply[content]
      analysis == parsed.val
      kwargs == ResponseKwargs(host, analysis, user_prompt, include_prompt)
  IN  IF ~parsed.ok THEN Raised("JSONDecodeError")
      ELSE IF analysis.t # "obj" THEN Raised("AttributeError")
      ELSE IF ValidationErrors(kwargs) # {} THEN Raised("ValidationError")
      ELSE Returned(AttackPathResponse(kwargs))

\* a plausible slip: the builder's list kept between calls, shared by the requests
generate_attack_path_SharedSections(r, h, inc) ==
  /\ req[r].pc = "idle"
  /\ sections' = ComposeSections(h, sections)
  /\ LET user_prompt == AssemblePrompt(sections')
     IN  req' = [req EXCEPT ![r] =
                   [pc |-> "awaiting", host |-> h, include_prompt |-> inc,
                    sections |-> sections', user_prompt |-> user_prompt,
                    request_params |-> RequestParams(SYSTEM_MESSAGE, user_prompt, TRUE),
                    calls |-> 1, raised |-> None, content |-> None,
                    prompt_sections |-> None, outcome |-> NoOutcome]]
  /\ UNCHANGED <<scenario, prompt, tpc, settings>>

\* POST /attack-path: a new analyzer, analyze builds the prompt and awaits the LLM
generate_attack_path(r, h, inc) ==
  /\ req[r].pc = "idle"
  /\ LET secs == SectionsOf[h]
         user_prompt == PromptOf[h]
     IN  req' = [req EXCEPT ![r] =
                   [pc |-> "awaiting", host |-> h, include_prompt |-> inc,
                    sections |-> secs, user_prompt |-> user_prompt,
                    request_params |-> RequestParams(SYSTEM_MESSAGE, user_prompt, TRUE),
                    calls |-> 1, raised |-> None, content |-> None,
                    prompt_sections |-> None, outcome |-> NoOutcome]]
  /\ UNCHANGED <<scenario, sections, prompt, tpc, settings>>

\* a plausible slip: the failed call made again
acompletion_raises_Retry(r) ==
  /\ req[r].pc = "awaiting"
  /\ req' = [req EXCEPT ![r].calls = 2]
  /\ UNCHANGED <<scenario, sections, prompt, tpc, settings>>

\* a plausible slip: the failure caught and answered with a default record
acompletion_raises_Swallowed(r) ==
  /\ req[r].pc = "awaiting"
  /\ req' = [req EXCEPT ![r].pc = "returned",
                         ![r].raised = Some("LLMError"),
                         ![r].outcome = Returned([attack_path |-> JArr(<<>>),
                                                  risk_level |-> JStr(<<"Unknown">>)])]
  /\ UNCHANGED <<scenario, sections, prompt, tpc, settings>>

\* litellm.acompletion raises: nothing catches it up to the route
acompletion_raises(r) ==
  /\ req[r].pc = "awaiting"
  /\ req' = [req EXCEPT ![r].pc = "failed",
                         ![r].raised = Some("LLMError"),
                         ![r].outcome = Raised("LLMError")]
  /\ UNCHANGED <<scenario, sections, prompt, tpc, settings>>

\* litellm.acompletion returns: complete parses, analyze builds the response
acompletion_returns(r, content) ==
  /\ req[r].pc = "awaiting"
  /\ LET out == AnalyzeOutcome(req[r].host, req[r].include_prompt, req[r].user_prompt,
                               content)
     IN  req' = [req EXCEPT ![r].pc = IF out.kind = "response" THEN "returned" ELSE "failed",
                            ![r].content = Some(content),
                            \* line 228 runs once complete has returned a value
                            ![r].prompt_sections =
                              IF out.kind = "error" /\ out.error = "JSONDecodeError"
                              THEN None
                              ELSE prompt_sections(req[r].user_prompt, req[r].include_prompt),
                            ![r].outcome = out]
  /\ UNCHANGED <<scenario, sections, prompt, tpc, settings>>

Init ==
  /\ scenario = EmptyHost
  /\ sections = <<>>
  /\ prompt = <<>>
  /\ tpc = "idle"
  /\ req = [r \in Reqs |-> IdleRequest]
  /\ settings = Settings

Next ==
  \/ \E r \in Reqs, h \in RequestHosts, inc \in BOOLEAN : generate_attack_path(r, h, inc)
  \/ \E r \in Reqs : acompletion_raises(r)
  \/ \E r \in Reqs, content \in ReplyContents : acompletion_returns(r, content)

Spec == Init /\ [][Next]_vars

(***************************************************************************)
(* test_scenarios.py: one scenario is validated and its prompt generated   *)
(***************************************************************************)
\* text.split(sep) for a separator that is one token
SplitOn(text, sep) ==
  LET \* a piece starts at the head of the text and after every separator
      IsStart(i) == i = 1 \/ text[i - 1] = sep
      \* the pieces, given where they start: each runs up to the separator before
      \* the next start, the last one to the end of the text
      Pieces(starts) ==
        [k \in 1..Len(starts) |->
           SubSeq(text, starts[k],
                  IF k < Len(starts) THEN starts[k + 1] - 2 ELSE Len(text))]
  IN  CHOOSE pieces \in
        {Pieces(starts) :
           starts \in {SelectSeq([i \in 1..(Len(text) + 1) |-> i], IsStart)}} : TRUE

\* prompt.split("\n")
SplitLines(text) == SplitOn(text, "\n")

\* line.startswith("===")
StartsWithDelim(line) ==
  Len(line) >= 3 /\ line[1] = "=" /\ line[2] = "=" /\ line[3] = "="

\* [line for line in prompt.split("\n") if line.startswith("===")]
ScenarioSections(text) == SelectSeq(SplitLines(text), StartsWithDelim)

test_scenario(h) ==
  /\ tpc = "idle"
  /\ scenario' = h
  /\ sections' = ComposeSections(h, InitialSections)
  /\ prompt' = AssemblePrompt(sections')
  /\ tpc' = "passed"
  /\ UNCHANGED <<req, settings>>

PromptInit ==
  /\ scenario = EmptyHost
  /\ sections = <<>>
  /\ prompt = <<>>
  /\ tpc = "idle"
  /\ req = [r \in Reqs |-> IdleRequest]
  /\ settings = Settings

\* a scenario file with at most n fields given a value
Scenario(n, varied) ==
  /\ tpc = "idle"
  /\ \E fs \in [1..n -> 0..Len(FieldOrder)] :
       /\ IsFieldChoice(fs, n)
       /\ \E vs \in [1..n -> 1..MostValues(varied)] :
            /\ IsValueChoice(fs, vs, n, varied)
            /\ test_scenario(HostOf(fs, vs, varied))

\* the record with every one of the 50 fields given a value
EveryFieldHost ==
  [f \in Fields |->
     CASE f \in StrFields -> Some(<<"Linux">>)
       [] f \in ListFields -> Some(<< <<"alpha">>, <<"beta">> >>)
       [] f \in IntListFields -> Some(<<22, 80>>)
       [] f \in BoolFields -> Some(TRUE)
       [] f \in FloatFields -> Some(98)
       [] f \in IntFields -> Some(5)]

\* a scenario file that sets every field
ScenarioEveryField ==
  /\ tpc = "idle"
  /\ test_scenario(EveryFieldHost)

PromptNext ==
  \/ Scenario(MaxPopulated, FALSE)
  \/ Scenario(MaxVaried, TRUE)
  \/ ScenarioEveryField

SpecPrompt == PromptInit /\ [][PromptNext]_vars

(***************************************************************************)
(* Vocabulary of the properties                                            *)
(***************************************************************************)
SeqFields == StrFields \cup ListFields \cup IntListFields

\* the field holds data: not null, not the empty string, not the empty sequence
NonAbsent(host, f) == IF f \in SeqFields THEN Truthy(host[f]) ELSE host[f] # None

\* the block of the builder (position in TITLES) that renders the field
SectionOf(f) ==
  CASE f \in {"platform", "version_os", "os_end_of_life"} -> 1
    [] f \in {"asset_name", "asset_id", "fqdn", "ip_addresses", "mac_addresses"} -> 2
    [] f \in {"asset_criticality", "business_role", "environment",
              "data_classification"} -> 3
    [] f \in {"network_segment", "internet_exposed", "open_ports", "services",
              "firewall_rules"} -> 4
    [] f \in {"security_controls", "edr_agent", "antivirus_status", "firewall_status",
              "encryption_status"} -> 5
    [] f \in {"vulnerabilities", "vulnerability_score", "critical_vuln_count",
              "patch_level", "missing_patches"} -> 6
    [] f \in {"domain_membership", "organizational_unit", "user_accounts",
              "admin_accounts", "service_accounts", "mfa_enabled", "password_policy"} -> 7
    [] f \in {"installed_software", "database_software", "development_tools",
              "browser_extensions"} -> 8
    [] f \in {"configurations", "security_recommendations", "compliance_gaps"} -> 9
    [] f \in {"cloud_provider", "cloud_instance_type", "cloud_iam_roles",
              "container_runtime", "kubernetes_cluster"} -> 10
    [] f \in {"backup_system", "backup_location"} -> 11
    [] f \in {"threat_intel_matches", "known_exploits"} -> 12

\* the header of the line a list-of-strings field renders
ListLabel(f) ==
  CASE f = "services" -> "- Services:"
    [] f = "vulnerabilities" -> "- Known Vulnerabilities:"
    [] f = "mac_addresses" -> "- MAC Addresses: "
    [] f = "ip_addresses" -> "- IP Addresses: "
    [] f = "firewall_rules" -> "- Firewall Rules:"
    [] f = "security_controls" -> "- Security Controls:"
    [] f = "user_accounts" -> "- User Accounts:"
    [] f = "admin_accounts" -> "- <U+1F511> Admin Accounts:"
    [] f = "service_accounts" -> "- Service Accounts:"
    [] f = "installed_software" -> "- Installed Software:"
    [] f = "browser_extensions" -> "- Browser Extensions:"
    [] f = "database_software" -> "- Database Software:"
    [] f = "development_tools" -> "- Development Tools:"
    [] f = "missing_patches" -> "- Missing Patches:"
    [] f = "configurations" -> "- <U+26A0><U+FE0F> Misconfigurations:"
    [] f = "compliance_gaps" -> "- Compliance Gaps:"
    [] f = "security_recommendations" -> "- Security Recommendations:"
    [] f = "cloud_iam_roles" -> "- IAM Roles:"
    [] f = "threat_intel_matches" -> "- <U+1F534> Threat Intel Matches:"
    [] f = "known_exploits" -> "- Known Exploits:"

\* the list-of-strings fields the builder renders on one line, joined with ", "
InlineListFields == {"ip_addresses", "mac_addresses"}

EOL_WARNING == "- <U+26A0><U+FE0F> OS END-OF-LIFE: System is running unsupported OS version"

HasToken(text, tok) == \E i \in 1..Len(text) : text[i] = tok

Positions(text, tok) == {i \in 1..Len(text) : text[i] = tok}

\* the title of a section text "=== <title> ===\n..."
TitleOf(sec) == sec[5]

\* the positions in `sections` of the sections with the t-th title
SectionsTitled(t) == {i \in 1..Len(sections) : TitleOf(sections[i]) = TITLES[t]}

\* the text occurs in the prompt from position i, ends a line there, and nothing else
\* does
OccursAsLineEnd(text, i, part) ==
  /\ i + Len(part) - 1 <= Len(text)
  /\ SubSeq(text, i, i + Len(part) - 1) = part
  /\ (i + Len(part) - 1 = Len(text) \/ text[i + Len(part)] = "\n")

\* header, then one line "  <bullet> <element>" per element, in order
RECURSIVE Bulleted(_)
Bulleted(items) ==
  IF Len(items) = 0 THEN <<>> ELSE <<"\n", BULLET>> \o items[1] \o Bulleted(Tail(items))

\* the elements on the header's line, ", " between consecutive ones
RECURSIVE Inline(_)
Inline(items) ==
  IF Len(items) = 0 THEN <<>>
  ELSE IF Len(items) = 1 THEN items[1]
  ELSE items[1] \o <<", ">> \o Inline(Tail(items))

\* the number a numeral denotes
DigitValue(d) == CHOOSE n \in 0..9 : Digit(n) = d

RECURSIVE NumeralValue(_)
NumeralValue(ds) ==
  IF Len(ds) = 0 THEN 0
  ELSE 10 * NumeralValue(SubSeq(ds, 1, Len(ds) - 1)) + DigitValue(ds[Len(ds)])

\* only the named fields of the record are given a value
OnlyPopulated(host, fs) == \A f \in Fields : host[f] # None <=> f \in fs

(***************************************************************************)
(* Properties                                                              *)
(***************************************************************************)
\* C1: whenever the reply is a well-formed JSON object, analyze returns an
\* AttackPathResponse whose platform and version_os are those of the input record.
C1_ObjectReplyReturnsRecord ==
  \A r \in Reqs :
    (/\ req[r].content # None
     /\ json_loads(req[r].content[1]).ok
     /\ json_loads(req[r].content[1]).val.t = "obj")
    => /\ req[r].pc = "returned"
       /\ req[r].outcome.kind = "response"
       /\ "platform" \in DOMAIN req[r].outcome.response[1]
       /\ "version_os" \in DOMAIN req[r].outcome.response[1]
       /\ req[r].outcome.response[1]["platform"] = req[r].host["platform"]
       /\ req[r].outcome.response[1]["version_os"] = req[r].host["version_os"]

\* C2 (as stated): the number of sections equals the number of the 13 categories of
\* the data model that hold data.
C2_SectionPerCategory ==
  tpc = "passed" =>
    Len(sections)
      = Cardinality({c \in 1..13 :
                       \E f \in Fields : Category(f) = c /\ NonAbsent(scenario, f)})

\* C2 (amended): for each of the 12 blocks of the builder, exactly one section with
\* the block's title is emitted if one of the block's fields other than
\* os_end_of_life holds data, and none otherwise; so the number of sections is the
\* number of such blocks.
C2_SectionPerBlock ==
  tpc = "passed" =>
    LET blocks == {SectionOf(f) :
                     f \in {g \in Fields \ {"os_end_of_life"} : NonAbsent(scenario, g)}}
    IN  /\ \A t \in 1..Len(TITLES) :
             Cardinality(SectionsTitled(t)) = IF t \in blocks THEN 1 ELSE 0
        /\ Len(sections) = Cardinality(blocks)

\* two categories of the data model hold data and one section is emitted
C2_Witness ==
  /\ tpc = "passed"
  /\ NonAbsent(scenario, "open_ports")
  /\ NonAbsent(scenario, "network_segment")
  /\ Len(sections) = 1

\* C3: whenever os_end_of_life is true the prompt holds the OS END-OF-LIFE warning
\* line, whatever the other fields are.
C3_EolWarningAlways ==
  (tpc = "passed" /\ TruthyBool(scenario["os_end_of_life"])) => HasToken(prompt, EOL_WARNING)

\* C4 (as stated): sections follow the order of the 13 categories of the data model:
\* of two fields with data in different categories, the section of the field in
\* the earlier category comes first.
C4_CategoryOrder ==
  tpc = "passed" =>
    \A f, g \in Fields :
      (/\ Category(f) < Category(g)
       /\ NonAbsent(scenario, f) /\ NonAbsent(scenario, g)
       /\ SectionsTitled(SectionOf(f)) # {} /\ SectionsTitled(SectionOf(g)) # {})
      => \A i \in SectionsTitled(SectionOf(f)), j \in SectionsTitled(SectionOf(g)) : i < j

\* C4 (amended): sections follow the fixed order of the builder's 12 blocks: the
\* title of an earlier section stands earlier in TITLES than that of a later one.
C4_BlockOrder ==
  tpc = "passed" =>
    \A i, j \in 1..Len(sections) :
      i < j => \E a, b \in 1..Len(TITLES) :
                 a < b /\ TitleOf(sections[i]) = TITLES[a] /\ TitleOf(sections[j]) = TITLES[b]

\* an asset-identification field and a network field: the asset section comes first
C4_Witness ==
  /\ tpc = "passed"
  /\ NonAbsent(scenario, "open_ports")
  /\ NonAbsent(scenario, "asset_id")
  /\ Len(sections) = 2
  /\ TitleOf(sections[1]) = "ASSET IDENTIFICATION"
  /\ TitleOf(sections[2]) = "NETWORK & EXPOSURE"

\* where the target block starts in an assembled prompt
TargetStart == Len(Join(NL, PreambleLines)) + 2

\* C5: a record with every field absent yields no section and the placeholder
\* sentence as the target block; a record that yields a section yields a prompt
\* without the placeholder sentence.
C5_PlaceholderIffNoSection ==
  tpc = "passed" =>
    /\ (\A f \in Fields : ~NonAbsent(scenario, f))
         => /\ sections = <<>>
            /\ OccursAsLineEnd(prompt, TargetStart, PLACEHOLDER)
    /\ Len(sections) > 0 => ~HasToken(prompt, PLACEHOLDER[1])

\* every field absent, some of them as an empty string or list
C5_Witness ==
  /\ tpc = "passed"
  /\ scenario # EmptyHost
  /\ \A f \in Fields : ~NonAbsent(scenario, f)
  /\ HasToken(prompt, PLACEHOLDER[1])

\* C6: a string or sequence field given as the empty string or the empty sequence
\* yields the prompt that the same record with the field null yields.
C6_EmptyIsNull ==
  tpc = "passed" =>
    \A f \in SeqFields :
      scenario[f] = Some(<<>>)
        => build_attack_analysis_prompt([scenario EXCEPT ![f] = None]) = prompt

\* an empty string and an empty list in one record
C6_Witness ==
  /\ tpc = "passed"
  /\ scenario["platform"] = Some(<<>>)
  /\ scenario["services"] = Some(<<>>)

\* C8: with only platform and open_ports populated there are exactly two sections:
\* CORE SYSTEM INFO with the line "- Platform: <platform>", then NETWORK & EXPOSURE
\* with the line "- Open Ports: " and the port numbers joined with ", " in order.
C8_PlatformAndPorts ==
  (/\ tpc = "passed"
   /\ OnlyPopulated(scenario, {"platform", "open_ports"})
   /\ NonAbsent(scenario, "platform") /\ NonAbsent(scenario, "open_ports"))
  => /\ Len(sections) = 2
     /\ TitleOf(sections[1]) = "CORE SYSTEM INFO"
     /\ TitleOf(sections[2]) = "NETWORK & EXPOSURE"
     /\ SplitLines(sections[1])
          = << <<"=", "=", "=", " ", "CORE SYSTEM INFO", " ", "=", "=", "=">>,
               <<"- Platform: ">> \o scenario["platform"][1] >>
     /\ LET lines == SplitLines(sections[2])
            ports == scenario["open_ports"][1]
            nums == SplitOn(Tail(lines[2]), ", ")
        IN  /\ Len(lines) = 2
            /\ lines[1] = <<"=", "=", "=", " ", "NETWORK & EXPOSURE", " ", "=", "=", "=">>
            /\ lines[2][1] = "- Open Ports: "
            /\ Len(nums) = Len(ports)
            /\ \A i \in 1..Len(ports) : Len(nums[i]) > 0 /\ NumeralValue(nums[i]) = ports[i]
     /\ (scenario["platform"][1] = <<"Linux">> /\ scenario["open_ports"][1] = <<22, 80>>)
          => /\ sections[1][Len(sections[1]) - 1] = "- Platform: "
             /\ sections[1][Len(sections[1])] = "Linux"
             /\ SubSeq(sections[2], Len(sections[2]) - 5, Len(sections[2]))
                  = <<"- Open Ports: ", "2", "2", ", ", "8", "0">>

\* Scenario A: platform "Linux", open ports 22 and 80
C8_Witness ==
  /\ tpc = "passed"
  /\ scenario = [EmptyHost EXCEPT !["platform"] = Some(<<"Linux">>),
                                  !["open_ports"] = Some(<<22, 80>>)]

\* the lines of the prompt that start with the label, each with what follows it
AnnotatedLines(label) == {i \in Positions(prompt, label) : i = 1 \/ prompt[i - 1] = "\n"}

\* the flag renders exactly one line, "<label><token>", when it is not null, and
\* none when it is; the token is yes when the flag is true, no when it is false,
\* and the other token is nowhere in the prompt
FlagLine(f, label, yes, no) ==
  LET at == AnnotatedLines(label)
  IN  IF scenario[f] = None
      THEN at = {} /\ ~HasToken(prompt, yes) /\ ~HasToken(prompt, no)
      ELSE /\ Cardinality(at) = 1
           /\ \A i \in at :
                OccursAsLineEnd(prompt, i, <<label, IF scenario[f][1] THEN yes ELSE no>>)
           /\ ~HasToken(prompt, IF scenario[f][1] THEN no ELSE yes)

\* C9: internet_exposed and mfa_enabled each render exactly one annotated line when
\* not null, with the token of their truth value and never the other token, and no
\* such line when null.
C9_AnnotatedFlags ==
  tpc = "passed" =>
    /\ FlagLine("internet_exposed", "- Internet Exposed: ",
                "YES - Exposed to Internet <U+1F310>", "No - Internal only")
    /\ FlagLine("mfa_enabled", "- Multi-Factor Authentication: ",
                "Enabled <U+2713>", "NOT ENABLED <U+26A0><U+FE0F>")

\* both flags set, one false and one true
C9_Witness ==
  /\ tpc = "passed"
  /\ scenario["internet_exposed"] = Some(FALSE)
  /\ scenario["mfa_enabled"] = Some(TRUE)

\* the field's header occurs once in the prompt, at the start of a line, followed by
\* the rendering and the end of the line
RendersAs(f, rendering) ==
  LET at == Positions(prompt, ListLabel(f))
  IN  /\ Cardinality(at) = 1
      /\ \A i \in at :
           /\ (i = 1 \/ prompt[i - 1] = "\n")
           /\ OccursAsLineEnd(prompt, i, <<ListLabel(f)>> \o rendering)

\* C10 (as stated): every non-empty list-of-strings field renders as a header line
\* followed by one bulleted line per element, in input order.
C10_AllListsBulleted ==
  tpc = "passed" =>
    \A f \in ListFields :
      NonAbsent(scenario, f) => RendersAs(f, Bulleted(scenario[f][1]))

\* C10 (amended): every non-empty list-of-strings field other than ip_addresses and
\* mac_addresses renders as a header line followed by one bulleted line per element,
\* in input order, none dropped or duplicated; ip_addresses and mac_addresses render
\* on the header's line, the elements in input order with ", " between them.
C10_ListsBulletedOrInline ==
  tpc = "passed" =>
    \A f \in ListFields :
      NonAbsent(scenario, f)
        => IF f \in InlineListFields
           THEN RendersAs(f, Inline(scenario[f][1]))
           ELSE RendersAs(f, Bulleted(scenario[f][1]))

\* a list whose two elements differ, in the order that is not the sorted one
C10_Witness ==
  /\ tpc = "passed"
  /\ scenario["services"] = Some(<< <<"beta">>, <<"alpha">> >>)

\* where the k-th section starts in the prompt if each section is followed by
\* exactly two line feeds
RECURSIVE SectionStart(_)
SectionStart(k) ==
  IF k = 1 THEN Len(PreambleText) + 1
  ELSE SectionStart(k - 1) + Len(sections[k - 1]) + 2

\* C11: the prompt starts with the fixed preamble and ends with the fixed epilogue,
\* whatever the record; between them stand the composed sections in composer order,
\* each "=== <TITLE> ===", a line feed and a non-empty body, consecutive sections
\* separated by exactly one blank line, the last one followed by the epilogue.
C11_PromptLayout ==
  tpc = "passed" =>
    LET n == Len(sections)
        epi == Len(prompt) - Len(EpilogueText) + 1
    IN  /\ SubSeq(prompt, 1, Len(PreambleText)) = PreambleText
        /\ epi > Len(PreambleText)
        /\ SubSeq(prompt, epi, Len(prompt)) = EpilogueText
        /\ \A k \in 1..n :
             LET sec == sections[k]
                 at == SectionStart(k)
             IN  /\ \E t \in 1..Len(TITLES) :
                      SubSeq(sec, 1, 10)
                        = <<"=", "=", "=", " ", TITLES[t], " ", "=", "=", "=", "\n">>
                 /\ Len(sec) > 10
                 /\ sec[Len(sec)] # "\n"
                 /\ SubSeq(prompt, at, at + Len(sec) - 1) = sec
                 /\ IF k < n
                    THEN prompt[at + Len(sec)] = "\n" /\ prompt[at + Len(sec) + 1] = "\n"
                    ELSE at + Len(sec) = epi

\* a prompt of two sections, so one blank line between sections
C11_Witness ==
  /\ tpc = "passed"
  /\ Len(sections) = 2
  /\ Len(prompt) > Len(PreambleText) + Len(EpilogueText)

\* the request has received a reply
Replied(r) == req[r].content # None

\* the value the reply parses to
ReplyValue(r) == ParsedReply[req[r].content[1]]

\* the reply is text that is not JSON
UnparsableReply(r) == Replied(r) /\ ~ReplyValue(r).ok

\* the reply is JSON whose top-level value is an object
ObjectReply(r) == Replied(r) /\ ReplyValue(r).ok /\ ReplyValue(r).val.t = "obj"

\* the reply is JSON whose top-level value is not an object
NonObjectReply(r) == Replied(r) /\ ReplyValue(r).ok /\ ReplyValue(r).val.t # "obj"

\* the object reply has the key
HasKey(r, key) == \E i \in 1..Len(ReplyValue(r).val.keys) : ReplyValue(r).val.keys[i] = key

\* the value the object reply holds under a key it has
ValueAt(r, key) == DictGet(ReplyValue(r).val, key, J("null"))

\* the request ended with analyze returning a record
ReturnedRecord(r) == req[r].pc = "returned" /\ req[r].outcome.kind = "response"

\* the record analyze returned
Record(r) == req[r].outcome.response[1]

\* the record has no value for the field
FieldAbsent(rec, f) == f \notin DOMAIN rec \/ rec[f] = None

\* C12: whenever analyze computes prompt_sections for a request, it equals the
\* number of sections the builder emitted for that request's record.
C12_SectionCountIsSections ==
  \A r \in Reqs :
    req[r].prompt_sections # None => req[r].prompt_sections[1] = Len(req[r].sections)

\* C13: a request with include_prompt false whose reply is a JSON object returns a
\* record with generated_prompt and prompt_sections both absent; in every returned
\* record the two are present together or absent together, and present only when
\* include_prompt is true.
C13_DiagnosticsOnlyOnRequest ==
  \A r \in Reqs :
    /\ (ObjectReply(r) /\ ~req[r].include_prompt)
         => /\ ReturnedRecord(r)
            /\ FieldAbsent(Record(r), "generated_prompt")
            /\ FieldAbsent(Record(r), "prompt_sections")
    /\ ReturnedRecord(r)
         => /\ FieldAbsent(Record(r), "generated_prompt")
                 <=> FieldAbsent(Record(r), "prompt_sections")
            /\ ~FieldAbsent(Record(r), "generated_prompt") => req[r].include_prompt

\* C14: a request with include_prompt true whose reply is a JSON object returns a
\* record whose generated_prompt is the user prompt of the request's call to the
\* model.
C14_GeneratedPromptIsSentPrompt ==
  \A r \in Reqs :
    (ObjectReply(r) /\ req[r].include_prompt)
      => /\ ReturnedRecord(r)
         /\ ~FieldAbsent(Record(r), "generated_prompt")
         /\ Record(r)["generated_prompt"] = Some(req[r].request_params.user)

\* C15: a request whose reply is the empty JSON object returns a record with
\* attack_path = [], risk_level = "Unknown" and recommendations = [].
C15_EmptyObjectDefaults ==
  \A r \in Reqs :
    (ObjectReply(r) /\ ReplyValue(r).val.keys = <<>>)
      => /\ ReturnedRecord(r)
         /\ Record(r)["attack_path"] = JArr(<<>>)
         /\ Record(r)["risk_level"] = JStr(<<"Unknown">>)
         /\ Record(r)["recommendations"] = JArr(<<>>)

\* C16: a request whose reply is not parsable as JSON ends failed with the parse
\* error, json.JSONDecodeError, and without a record.
C16_UnparsableReplyFails ==
  \A r \in Reqs :
    UnparsableReply(r)
      => /\ req[r].pc = "failed"
         /\ req[r].outcome.kind = "error"
         /\ req[r].outcome.error = "JSONDecodeError"
         /\ req[r].outcome.response = None

\* the reply "not json"
C16_Witness ==
  \E r \in Reqs :
    /\ req[r].content = Some(<<"not", " ", "json">>)
    /\ req[r].pc = "failed"

\* C17: a request whose reply is JSON but not an object fails with the error kind
\* of a request whose reply is not JSON, and that kind is not the one of a failed
\* call to the model.
C17_NonObjectIsFormatError ==
  \A r \in Reqs :
    NonObjectReply(r)
      => /\ req[r].pc = "failed"
         /\ req[r].outcome.kind = "error"
         /\ \A q \in Reqs :
              UnparsableReply(q) => req[q].outcome.error = req[r].outcome.error
         /\ \A q \in Reqs :
              (req[q].pc = "failed" /\ ~Replied(q))
                => req[q].outcome.error # req[r].outcome.error

\* C18: a request whose reply is a JSON object without attack_path, or with an
\* attack_path that is not an array, returns a record whose attack_path is empty.
C18_BadAttackPathIsEmpty ==
  \A r \in Reqs :
    (ObjectReply(r) /\ (HasKey(r, <<"attack_path">>) => ValueAt(r, <<"attack_path">>).t # "arr"))
      => /\ ReturnedRecord(r)
         /\ Record(r)["attack_path"] = JArr(<<>>)

\* the values of risk_level the model is asked for
RiskLevels == {<<"Critical">>, <<"High">>, <<"Medium">>, <<"Low">>}

\* the object reply holds one of the four expected values under risk_level
ExpectedRiskLevel(r) ==
  /\ HasKey(r, <<"risk_level">>)
  /\ ValueAt(r, <<"risk_level">>).t = "str"
  /\ ValueAt(r, <<"risk_level">>).s \in RiskLevels

\* C19: the risk_level of every returned record is Critical, High, Medium, Low or
\* Unknown; a request whose reply is a JSON object with risk_level missing, not a
\* string, or a string other than the four expected ones returns a record whose
\* risk_level is "Unknown".
C19_RiskLevelNormalised ==
  \A r \in Reqs :
    /\ ReturnedRecord(r)
         => /\ Record(r)["risk_level"].t = "str"
            /\ Record(r)["risk_level"].s \in RiskLevels \cup {<<"Unknown">>}
    /\ (ObjectReply(r) /\ ~ExpectedRiskLevel(r))
         => /\ ReturnedRecord(r)
            /\ Record(r)["risk_level"] = JStr(<<"Unknown">>)

\* C20: a request whose reply is a JSON object with an array of strings under
\* attack_path and one of the four expected values under risk_level returns a record
\* with that array, element for element, and that value.
C20_WellFormedReplyVerbatim ==
  \A r \in Reqs :
    (/\ ObjectReply(r)
     /\ HasKey(r, <<"attack_path">>)
     /\ IsListOfStr(ValueAt(r, <<"attack_path">>))
     /\ ExpectedRiskLevel(r))
    => /\ ReturnedRecord(r)
       /\ Record(r)["attack_path"] = ValueAt(r, <<"attack_path">>)
       /\ Record(r)["risk_level"] = ValueAt(r, <<"risk_level">>)

\* C21: a request whose reply is a JSON object holding an array under
\* recommendations returns a record whose recommendations are that array.
C21_RecommendationsKept ==
  \A r \in Reqs :
    (/\ ObjectReply(r)
     /\ HasKey(r, <<"recommendations">>)
     /\ ValueAt(r, <<"recommendations">>).t = "arr")
    => /\ ReturnedRecord(r)
       /\ Record(r)["recommendations"] = ValueAt(r, <<"recommendations">>)

\* the request has ended
Ended(r) == req[r].pc \in {"returned", "failed"}

\* C22: a request moves from idle to awaiting the model with its prompt assembled,
\* and from there to its end, never back and never twice: the model is called with
\* the assembled prompt, the reply is received and parsed only in the step that
\* leaves the call, a record is returned only for a parsed reply, and a request that
\* is awaiting or has ended is not changed except by the step that ends it.
C22_StagesInOrder ==
  [][\A r \in Reqs :
       /\ req'[r].pc # req[r].pc
            => <<req[r].pc, req'[r].pc>>
                 \in {<<"idle", "awaiting">>, <<"awaiting", "returned">>,
                      <<"awaiting", "failed">>}
       /\ (req[r].pc = "idle" /\ req'[r].pc = "awaiting")
            => /\ req'[r].calls = 1
               /\ req'[r].request_params.user = req'[r].user_prompt
               /\ req'[r].user_prompt = AssemblePrompt(req'[r].sections)
               /\ req'[r].content = None
               /\ req'[r].outcome = NoOutcome
       /\ req'[r].pc = req[r].pc => req'[r] = req[r]
       /\ req'[r].content # req[r].content
            => req[r].pc = "awaiting" /\ req[r].content = None /\ Ended(r)'
       /\ req'[r].pc = "returned" => ObjectReply(r)'
       /\ req'[r].calls <= 1
    ]_vars

\* a request that went through every stage up to the construction of the record
C22_Witness ==
  \E r \in Reqs :
    /\ req[r].pc = "failed"
    /\ ObjectReply(r)
    /\ req[r].calls = 1
    /\ req[r].outcome.error = "ValidationError"

\* the reply is JSON that is not an object, or is not JSON
MalformedReply(r) == UnparsableReply(r) \/ NonObjectReply(r)

\* the call to the model failed
TransportFailure(r) == req[r].raised # None

\* C23: a request whose call to the model fails, or whose reply is malformed, ends
\* failed with the error that was raised (the call's error, json.JSONDecodeError,
\* or the AttributeError of .get on a non-object), with no record, after one call
\* to the model; and once it has failed nothing about it changes again.
C23_FailurePropagates ==
  /\ [](\A r \in Reqs :
          /\ (TransportFailure(r) \/ MalformedReply(r))
               => /\ req[r].pc = "failed"
                  /\ req[r].outcome.kind = "error"
                  /\ req[r].outcome.response = None
                  /\ req[r].calls = 1
          /\ TransportFailure(r) => req[r].outcome.error = req[r].raised[1]
          /\ UnparsableReply(r) => req[r].outcome.error = "JSONDecodeError"
          /\ NonObjectReply(r) => req[r].outcome.error = "AttributeError"
          /\ (req[r].pc = "awaiting" \/ Ended(r)) => req[r].calls = 1)
  /\ [][\A r \in Reqs : req[r].pc = "failed" => req'[r] = req[r]]_vars

\* one request failed in the call, another on a reply that is not JSON
C23_Witness ==
  \E r, q \in Reqs :
    /\ TransportFailure(r)
    /\ UnparsableReply(q) /\ req[q].pc = "failed"

\* C24: every request that has reached the call has called the model once, with
\* the system message constant, the prompt built from its own record as the user
\* prompt, the configured model and temperature, and the JSON response format; and
\* the request parameters carry a response format exactly when json_mode is set.
C24_InvokeParameters ==
  \A r \in Reqs :
    req[r].pc # "idle"
      => /\ req[r].calls = 1
         /\ req[r].request_params.system = SYSTEM_MESSAGE
         /\ req[r].request_params.user = PromptOf[req[r].host]
         /\ req[r].request_params.model = Settings.LLM_MODEL
         /\ req[r].request_params.temperature = Settings.LLM_TEMPERATURE
         /\ req[r].request_params.response_format = Some("json_object")
         /\ \A json_mode \in BOOLEAN :
              RequestParams(SYSTEM_MESSAGE, req[r].user_prompt, json_mode).response_format
                  # None
                <=> json_mode
         /\ \A q \in Reqs :
              req[q].pc # "idle" => req[q].request_params.system = req[r].request_params.system

\* two requests with different records, both past the call
C24_Witness ==
  \E r, q \in Reqs :
    /\ req[r].pc # "idle" /\ req[q].pc # "idle"
    /\ req[r].host # req[q].host
    /\ req[r].request_params.user # req[q].request_params.user

\* what a request with this record, flag and reply ends with when it runs alone
AloneOutcome(host, include_prompt, content) ==
  AnalyzeOutcome(host, include_prompt, PromptOf[host], content)

\* C25: whatever the interleaving, what a request holds is what it would hold run
\* alone: its prompt is the one of its own record, its outcome the one of its own
\* record, flag and reply (or the model's error); a step changes one request only,
\* and the settings stay those of startup.
C25_RequestsIndependent ==
  /\ [](/\ settings = Settings
        /\ \A r \in Reqs :
             /\ req[r].pc # "idle"
                  => /\ req[r].sections = SectionsOf[req[r].host]
                     /\ req[r].user_prompt = PromptOf[req[r].host]
                     /\ req[r].request_params.user = req[r].user_prompt
             /\ Replied(r)
                  => req[r].outcome
                       = AloneOutcome(req[r].host, req[r].include_prompt, req[r].content[1])
             /\ TransportFailure(r) => req[r].outcome = Raised(req[r].raised[1]))
  /\ [][/\ settings' = settings
        /\ \A r, q \in Reqs : (req'[r] # req[r] /\ req'[q] # req[q]) => r = q]_vars

\* one request answered while another, with a different record, is suspended at its call
C25_Witness ==
  /\ Replied(1) /\ ~Replied(2)
  /\ req[2].pc = "awaiting"
  /\ req[1].host # req[2].host
  /\ req[1].host # EmptyHost

\* the part of the assembled prompt after the target block
EpilogueOf(text) == SubSeq(text, Len(text) - Len(EpilogueText) + 1, Len(text))

\* C26: the epilogue of every assembled prompt names both "attack_path" and
\* "risk_level" as keys of the JSON object to return, and says that no text may
\* stand outside the JSON.
C26_EpilogueNamesBothKeys ==
  tpc = "passed" =>
    /\ HasToken(EpilogueOf(prompt), "\"attack_path\"")
    /\ HasToken(EpilogueOf(prompt), "\"risk_level\"")
    /\ HasToken(EpilogueOf(prompt),
                "- Ensure output is valid, parseable JSON with no additional text outside the JSON structure")

\* C27: every emitted section is a title line "=== <TITLE> ===" whose title is one
\* of the twelve constants, followed by at least one line, none of them empty.
C27_SectionsHaveBody ==
  tpc = "passed" =>
    \A k \in 1..Len(sections) :
      LET lines == SplitLines(sections[k])
      IN  /\ Len(lines) >= 2
          /\ \E t \in 1..Len(TITLES) :
               lines[1] = <<"=", "=", "=", " ", TITLES[t], " ", "=", "=", "=">>
          /\ \A i \in 2..Len(lines) : Len(lines[i]) > 0

\* every block emitted, each with its lines
C27_Witness ==
  /\ tpc = "passed"
  /\ Len(sections) = Len(TITLES)
  /\ \A k \in 1..Len(sections) : Len(SplitLines(sections[k])) >= 3

\* the text holds "==="
HasDelim(text) == CountDelims(text) > 0

\* no value of the record holds "==="
NoDelimInValues(host) ==
  /\ \A f \in StrFields : host[f] # None => ~HasDelim(host[f][1])
  /\ \A f \in ListFields :
       host[f] # None => \A i \in 1..Len(host[f][1]) : ~HasDelim(host[f][1][i])

\* C28: the prompt of every record is generated, and when no value holds "===" the
\* sections the builder appended, the lines of the prompt that start with "===" and
\* the count of "===" in the prompt halved are the same number; for the record with
\* every field absent that number is 0.
C28_SectionCountsAgree ==
  tpc = "passed" =>
    /\ Len(prompt) > 0
    /\ NoDelimInValues(scenario)
         => /\ Len(ScenarioSections(prompt)) = Len(sections)
            /\ prompt_sections(prompt, TRUE) = Some(Len(sections))
    /\ scenario = EmptyHost
         => /\ Len(sections) = 0
            /\ Len(ScenarioSections(prompt)) = 0
            /\ prompt_sections(prompt, TRUE) = Some(0)

\* a record without "===" in its values that yields two sections
C28_Witness ==
  /\ tpc = "passed"
  /\ NoDelimInValues(scenario)
  /\ Len(sections) = 2
  /\ Len(ScenarioSections(prompt)) = 2

\* the order of the twelve titles
FixedTitleOrder ==
  <<"CORE SYSTEM INFO",
    "ASSET IDENTIFICATION",
    "ASSET CONTEXT (HIGH PRIORITY FOR RISK ASSESSMENT)",
    "NETWORK & EXPOSURE",
    "SECURITY CONTROLS (CONSIDER FOR EVASION)",
    "VULNERABILITIES & PATCH STATUS",
    "IDENTITY & ACCESS MANAGEMENT",
    "INSTALLED SOFTWARE (ADDITIONAL ATTACK VECTORS)",
    "MISCONFIGURATIONS & WEAKNESSES",
    "CLOUD & CONTAINER ENVIRONMENT",
    "BACKUP & RECOVERY (POTENTIAL EXFILTRATION TARGET)",
    "THREAT INTELLIGENCE">>

\* the places of a title in the fixed order
PlacesOf(title) == {t \in 1..Len(FixedTitleOrder) : FixedTitleOrder[t] = title}

\* C29: the titles of the emitted sections are a subsequence without repetition of
\* the fixed order of the twelve titles: each title has one place in that order,
\* each section's place is after the place of the section before it, and there are
\* at most twelve sections.
C29_TitlesSubsequence ==
  tpc = "passed" =>
    /\ Len(sections) <= 12
    /\ \A k \in 1..Len(sections) : Cardinality(PlacesOf(TitleOf(sections[k]))) = 1
    /\ \A k \in 1..(Len(sections) - 1) :
         \A a \in PlacesOf(TitleOf(sections[k])), b \in PlacesOf(TitleOf(sections[k + 1])) :
           a < b

\* all twelve sections emitted
C29_Witness ==
  /\ tpc = "passed"
  /\ Len(sections) = 12
  /\ TitleOf(sections[1]) = "CORE SYSTEM INFO"
  /\ TitleOf(sections[12]) = "THREAT INTELLIGENCE"

\* C30: the OS END-OF-LIFE warning line is in the prompt, once, exactly when
\* os_end_of_life is true and platform or version_os is a non-empty string; the CORE
\* SYSTEM INFO section is emitted exactly when platform or version_os is a non-empty
\* string, whatever os_end_of_life is; and with os_end_of_life false the prompt is
\* the one of the same record with os_end_of_life null.
C30_EolWarningNeedsPlatform ==
  tpc = "passed" =>
    LET named == Truthy(scenario["platform"]) \/ Truthy(scenario["version_os"])
    IN  /\ HasToken(prompt, EOL_WARNING)
             <=> (TruthyBool(scenario["os_end_of_life"]) /\ named)
        /\ Cardinality(Positions(prompt, EOL_WARNING)) <= 1
        /\ \A i \in Positions(prompt, EOL_WARNING) :
             prompt[i - 1] = "\n" /\ prompt[i + 1] = "\n"
        /\ SectionsTitled(1) # {} <=> named
        /\ scenario["os_end_of_life"] = Some(FALSE)
             => prompt
                  = build_attack_analysis_prompt([scenario EXCEPT !["os_end_of_life"] = None])

\* the flag true next to a platform: the warning is rendered
C30_Witness ==
  /\ tpc = "passed"
  /\ scenario["os_end_of_life"] = Some(TRUE)
  /\ Truthy(scenario["platform"])
  /\ scenario["version_os"] = None
  /\ HasToken(prompt, EOL_WARNING)

====
